---- MODULE Spec2Model ----
(***************************************************************************)
(* A model of iter-num-tools: the logarithmic space iterator (LogSpace),   *)
(* the fixed-step iterator (Arange) and the fixed-step grids built from    *)
(* it (arange_grid).                                                       *)
(*                                                                         *)
(* Numbers.  The floating point types of the crate are modelled by exact   *)
(* arithmetic on the values the model draws: Arange works on integers (a   *)
(* value v stands for v quanta of a dyadic unit, on which f32/f64 add,     *)
(* subtract and multiply exactly), LogSpace on the reals m * b^(p/q) kept  *)
(* in symbolic form.  Machine integers keep a width, scaled down so that   *)
(* TLC can enumerate it: usize has USIZE_BITS bits, i32 has I32_BITS.      *)
(***************************************************************************)
EXTENDS Integers, Sequences, FiniteSets, TLC

\* ------------------------------------------------------------------ bounds

\* Largest step count handed to log_space.
MaxSteps == 4
\* Largest start of a log_space range, and largest ratio end/start.
MaxLogStart == 2
MaxLogRatio == 3
\* Calls made on one LogSpace (enough to run past exhaustion).
MaxLogCalls == 6
\* Width of usize and of i32 in the model (64 and 32 in the program).
USIZE_BITS == 6
I32_BITS == 4
\* Largest start, end and step size of an Arange; the smallest step is -1.
MaxArStart == 2
MaxArEnd == 4
MaxArStep == 2
\* Calls made on one Arange (an Arange may be infinite).
MaxArCalls == 6
\* Largest end and step of a grid axis (an axis starts at 0 or 1).
MaxGridEnd == 2
MaxGridStep == 2
\* Calls of a grid's next() that return None before the model stops calling.
MaxGridNones == 2
\* Largest x0, x1 and input of a Lerp, and largest y0, y1 (the smallest is -1).
MaxLerpX == 3
MaxLerpY == 2

\* ---------------------------------------------------------------- integers

RECURSIVE Pow(_, _)
Pow(b, e) == IF e <= 0 THEN 1 ELSE b * Pow(b, e - 1)

RECURSIVE GCD(_, _)
GCD(a, b) == IF b = 0 THEN a ELSE GCD(b, a % b)

Abs(a) == IF a < 0 THEN -a ELSE a

USIZE_MAX == Pow(2, USIZE_BITS) - 1

\* `x as i32`: the low I32_BITS bits of x, read as two's complement.
AsI32(x) ==
    LET m == x % Pow(2, I32_BITS)
    IN  IF m >= Pow(2, I32_BITS - 1) THEN m - Pow(2, I32_BITS) ELSE m

\* Option<T>
None == [some |-> FALSE]
Some(v) == [some |-> TRUE, v |-> v]

\* --------------------------------------------------- reals of log_space
\* A real is m * base^(num/den), the exponent a fraction in lowest terms
\* with den >= 0; den = 0 is the exponent +infinity.  A whole number w is
\* Whole(w).  An exponent is a record [num, den].

Whole(w) == [m |-> w, base |-> 1, num |-> 0, den |-> 1]

Frac(n, d) ==
    IF d = 0 THEN [num |-> 1, den |-> 0]
    ELSE LET g == GCD(Abs(n), Abs(d)) IN [num |-> n \div g, den |-> d \div g]

\* T::from_usize(n): the float with the value n.
FromUsize(n) == Frac(n, 1)

\* f.recip(): 1/f, and 1/0 = +infinity.
Recip(f) == Frac(f.den, f.num)

\* end / start, on the ranges of the model (start divides end).
Div(end, start) == end \div start

\* q.powf(e), for a whole q >= 1: 1^e = 1, q^0 = 1, otherwise symbolic.
Powf(q, e) ==
    IF q = 1 \/ e.num = 0 THEN [base |-> 1, num |-> 0, den |-> 1]
    ELSE [base |-> q, num |-> e.num, den |-> e.den]

\* p.powi(i), for a power p = base^(num/den): base^(i*num/den), and p^0 = 1.
Powi(p, i) ==
    IF i = 0 \/ p.base = 1 THEN [base |-> 1, num |-> 0, den |-> 1]
    ELSE IF p.den = 0
         THEN [base |-> p.base, num |-> IF i > 0 THEN 1 ELSE -1, den |-> 0]
         ELSE LET e == Frac(i * p.num, p.den)
              IN  [base |-> p.base, num |-> e.num, den |-> e.den]

\* start * p, for a whole start and a power p.
Mul(start, p) ==
    IF p.den = 1 /\ p.num >= 0
    THEN Whole(start * Pow(p.base, p.num))
    ELSE [m |-> start, base |-> p.base, num |-> p.num, den |-> p.den]

\* ------------------------------------------------------ LogInterpolation

\* LogInterpolation::lerp
lerp(self, x) == Mul(self.start, Powi(self.step, AsI32(x)))

\* LogInterpolation::from((Range, usize))
FromRange(start, end, steps) ==
    [start |-> start,
     step  |-> Powf(Div(end, start), Recip(FromUsize(steps)))]

\* steps - 1 on usize: a panic where overflow is checked (debug), a wrap
\* where it is not (release).
StepsMinusOne(steps, build) ==
    IF steps >= 1 THEN Some(steps - 1)
    ELSE IF build = "debug" THEN None
    ELSE Some((steps - 1) % Pow(2, USIZE_BITS))

\* Mutant of FromRangeInclusive: the exponent is 1/steps, as for a Range.
FromRangeInclusive_SameAsRange(start, end, steps, build) ==
    LET d == StepsMinusOne(steps, build)
    IN  IF ~d.some THEN None
        ELSE Some([start |-> start,
                   step  |-> Powf(Div(end, start), Recip(FromUsize(steps)))])

\* LogInterpolation::from((RangeInclusive, usize)), None for a panic.
FromRangeInclusive(start, end, steps, build) ==
    LET d == StepsMinusOne(steps, build)
    IN  IF ~d.some THEN None
        ELSE Some([start |-> start,
                   step  |-> Powf(Div(end, start), Recip(FromUsize(d.v)))])

\* --------------------------------------------------------------- LogSpace

\* IntoLogSpace::into_log_space for Range and RangeInclusive; None for a
\* panic during construction.
into_log_space(kind, start, end, steps, build) ==
    LET l == IF kind = "Range" THEN Some(FromRange(start, end, steps))
             ELSE FromRangeInclusive(start, end, steps, build)
    IN  IF ~l.some THEN None
        ELSE Some([x |-> 0, steps |-> steps, lerp |-> l.v])

\* Mutant of len: the values already taken from the front are not deducted.
len_IgnoresFront(self) == self.steps

\* ExactSizeIterator::len
len(self) == self.steps - self.x

\* Iterator::size_hint
size_hint(self) == LET l == len(self) IN <<l, Some(l)>>

\* Mutant of next: the guard lets the cursor step once past steps.
next_GuardOffByOne(self) ==
    IF self.x <= self.steps
    THEN LET n == self.x + 1
         IN  [self |-> [self EXCEPT !.x = n],
              ret  |-> Some(lerp(self.lerp, self.x)),
              idx  |-> Some(self.x)]
    ELSE [self |-> self, ret |-> None, idx |-> None]

\* Mutant of next: lerp is evaluated at the incremented cursor.
next_AfterIncrement(self) ==
    IF self.x < self.steps
    THEN LET n == self.x + 1
         IN  [self |-> [self EXCEPT !.x = n],
              ret  |-> Some(lerp(self.lerp, n)),
              idx  |-> Some(n)]
    ELSE [self |-> self, ret |-> None, idx |-> None]

\* Iterator::next: the iterator after the call, the value returned and the
\* index handed to lerp.
next(self) ==
    IF self.x < self.steps
    THEN LET n == self.x + 1
         IN  [self |-> [self EXCEPT !.x = n],
              ret  |-> Some(lerp(self.lerp, self.x)),
              idx  |-> Some(self.x)]
    ELSE [self |-> self, ret |-> None, idx |-> None]

\* Mutant of next_back: lerp is evaluated at steps before the decrement.
next_back_BeforeDecrement(self) ==
    IF self.x < self.steps
    THEN LET s == [self EXCEPT !.steps = self.steps - 1]
         IN  [self |-> s,
              ret  |-> Some(lerp(s.lerp, self.steps)),
              idx  |-> Some(self.steps)]
    ELSE [self |-> self, ret |-> None, idx |-> None]

\* Mutant of next_back: the guard looks at steps alone, not at the cursor.
next_back_IgnoresFront(self) ==
    IF 0 < self.steps
    THEN LET s == [self EXCEPT !.steps = self.steps - 1]
         IN  [self |-> s,
              ret  |-> Some(lerp(s.lerp, s.steps)),
              idx  |-> Some(s.steps)]
    ELSE [self |-> self, ret |-> None, idx |-> None]

\* DoubleEndedIterator::next_back
next_back(self) ==
    IF self.x < self.steps
    THEN LET s == [self EXCEPT !.steps = self.steps - 1]
         IN  [self |-> s,
              ret  |-> Some(lerp(s.lerp, s.steps)),
              idx  |-> Some(s.steps)]
    ELSE [self |-> self, ret |-> None, idx |-> None]

\* ----------------------------------------------------------------- Arange
\* Values are whole numbers of a dyadic quantum; the step counter, a float
\* in the program, counts 0, 1, 2, ... exactly over the calls of the model.

\* (length / step_size).ceil().to_usize(): a division by zero gives an
\* infinity or a NaN, and to_usize gives None for those, for a value of -1
\* or less and for a value above usize::MAX.
CeilDiv(a, b) ==
    IF b > 0 THEN -((-a) \div b) ELSE -(a \div (-b))

CeilQuotToUsize(length, step_size) ==
    IF step_size = 0 THEN None
    ELSE LET c == CeilDiv(length, step_size)
         IN  IF c >= 0 /\ c <= USIZE_MAX THEN Some(c) ELSE None

\* Arange::new
Arange_new(start, end, step) ==
    [start |-> start, end |-> end, step_size |-> step, step |-> 0]

\* Mutant of Arange_next: start is advanced by step_size, instead of the
\* step counter by one.
Arange_next_MovesStart(self) ==
    LET x == self.start + self.step * self.step_size
    IN  IF x < self.end
        THEN [self |-> [self EXCEPT !.start = self.start + self.step_size],
              ret  |-> Some(x)]
        ELSE [self |-> self, ret |-> None]

\* Mutant of Arange_next: the comparison with end is not strict.
Arange_next_Inclusive(self) ==
    LET x == self.start + self.step * self.step_size
    IN  IF x <= self.end
        THEN [self |-> [self EXCEPT !.step = self.step + 1], ret |-> Some(x)]
        ELSE [self |-> self, ret |-> None]

\* Arange::next
Arange_next(self) ==
    LET x == self.start + self.step * self.step_size
    IN  IF x < self.end
        THEN [self |-> [self EXCEPT !.step = self.step + 1], ret |-> Some(x)]
        ELSE [self |-> self, ret |-> None]

\* Mutant of Arange_size_hint: the steps already taken are not deducted.
Arange_size_hint_FromStart(self) ==
    LET length == self.end - self.start
        left == CeilQuotToUsize(length, self.step_size)
    IN  IF left.some THEN <<left.v, Some(left.v)>> ELSE <<USIZE_MAX, None>>

\* Arange::size_hint
Arange_size_hint(self) ==
    LET length == self.end - (self.start + self.step * self.step_size)
        left == CeilQuotToUsize(length, self.step_size)
    IN  IF left.some THEN <<left.v, Some(left.v)>> ELSE <<USIZE_MAX, None>>

\* Mutant of Arange_count: without an upper bound the lower bound is returned.
Arange_count_NoPanic(self) ==
    LET h == Arange_size_hint(self)
    IN  IF h[2].some THEN Some(h[2].v) ELSE Some(h[1])

\* Arange::count: Some(n), or None for the panic "iterator is infinite".
Arange_count(self) ==
    LET h == Arange_size_hint(self)
    IN  IF h[2].some THEN Some(h[2].v) ELSE None

\* ------------------------------------------------------------ arange_grid
\* itertools' Product (cartesian_product): a is the first iterator, a_cur
\* its current item, b the second iterator and b_orig the copy b restarts
\* from.  An iterator inside a Product is an Arange or a Product.

RECURSIVE Product_next(_)

\* I::next for the iterator types of a grid.
Iter_next(it) ==
    IF "step_size" \in DOMAIN it THEN Arange_next(it) ELSE Product_next(it)

\* Itertools::cartesian_product
Product_new(i, j) ==
    LET r == Iter_next(i)
    IN  [a |-> r.self, a_cur |-> r.ret, b |-> j, b_orig |-> j]

\* Product::next
Product_next(self) ==
    LET rb == Iter_next(self.b)
    IN  IF rb.ret.some
        THEN LET s == [self EXCEPT !.b = rb.self]
             IN  [self |-> s,
                  ret  |-> IF s.a_cur.some THEN Some(<<s.a_cur.v, rb.ret.v>>) ELSE None]
        ELSE LET rb2 == Iter_next(self.b_orig)
             IN  IF ~rb2.ret.some
                 THEN [self |-> [self EXCEPT !.b = rb2.self], ret |-> None]
                 ELSE LET ra == Iter_next(self.a)
                          s  == [self EXCEPT !.b = rb2.self, !.a = ra.self,
                                             !.a_cur = ra.ret]
                      IN  [self |-> s,
                           ret  |-> IF s.a_cur.some
                                    THEN Some(<<s.a_cur.v, rb2.ret.v>>) ELSE None]

\* Mutant of into_arange_grid2: the two axes are given to the product in
\* the other order.
into_arange_grid2_Swapped(start, end, size) ==
    LET first  == Arange_new(start[2], end[2], size[2])
        second == Arange_new(start[1], end[1], size[1])
    IN  Product_new(first, second)

\* IntoArangeGrid<(F1, F2)> for Range<(F1, F2)>
into_arange_grid2(start, end, size) ==
    LET first  == Arange_new(start[1], end[1], size[1])
        second == Arange_new(start[2], end[2], size[2])
    IN  Product_new(first, second)

\* Grid2::next
Grid2_next(self) == Product_next(self)

\* Combine::new and the flattening of its items: ((a, b), c) to (a, b, c).
Combine_new(inner) == [inner |-> inner]

Combine_flatten(item) == <<item[1][1], item[1][2], item[2]>>

\* Mutant of into_arange_grid3: the third axis is built with the step of
\* the second.
into_arange_grid3_StepOfSecond(start, end, size) ==
    LET first  == into_arange_grid2(<<start[1], start[2]>>, <<end[1], end[2]>>,
                                    <<size[1], size[2]>>)
        second == Arange_new(start[3], end[3], size[2])
    IN  Combine_new(Product_new(first, second))

\* IntoArangeGrid<(F1, F2, F3)> for Range<(F1, F2, F3)>
into_arange_grid3(start, end, size) ==
    LET first  == into_arange_grid2(<<start[1], start[2]>>, <<end[1], end[2]>>,
                                    <<size[1], size[2]>>)
        second == Arange_new(start[3], end[3], size[3])
    IN  Combine_new(Product_new(first, second))

\* Grid3::next: the Product's next(), and the item Combine makes of it.
Grid3_inner_next(self) == Product_next(self.inner)

Grid3_next(self) ==
    LET r == Grid3_inner_next(self)
    IN  [self |-> [inner |-> r.self],
         ret  |-> IF r.ret.some THEN Some(Combine_flatten(r.ret.v)) ELSE None]

\* Mutant of into_arange_grid2_uniform: the step reaches the first axis
\* only, the second axis steps by one quantum.
into_arange_grid2_uniform_FirstOnly(start, end, steps) ==
    into_arange_grid2(start, end, <<steps, 1>>)

\* IntoArangeGrid<F> for Range<(F, F)> and Range<(F, F, F)>: one step for
\* every axis.
into_arange_grid2_uniform(start, end, steps) ==
    into_arange_grid2(start, end, <<steps, steps>>)

into_arange_grid3_uniform(start, end, steps) ==
    into_arange_grid3(start, end, <<steps, steps, steps>>)

\* arange_grid: size is <<"each", step>> or <<"per_axis", steps>>.
arange_grid(start, end, size) ==
    IF Len(start) = 2
    THEN IF size[1] = "each" THEN into_arange_grid2_uniform(start, end, size[2])
         ELSE into_arange_grid2(start, end, size[2])
    ELSE IF size[1] = "each" THEN into_arange_grid3_uniform(start, end, size[2])
         ELSE into_arange_grid3(start, end, size[2])

\* ------------------------------------------------------------------- Lerp
\* T is a float type ("float": exact fractions here, and a division by zero
\* gives a NaN or an infinity) or an integer type ("int": the division
\* truncates, and a division by zero panics).  A value of T is a fraction
\* [num, den] with den > 0; the values of the model and their products lie
\* within every primitive type.

Rat(n, d) ==
    LET g == GCD(Abs(n), Abs(d))
    IN  IF d > 0 THEN [num |-> n \div g, den |-> d \div g]
        ELSE [num |-> (-n) \div g, den |-> (-d) \div g]

\* T::from_usize(x).unwrap(): the value x of T.
T_from(x) == Rat(x, 1)

T_add(a, b) == Rat(a.num * b.den + b.num * a.den, a.den * b.den)

T_sub(a, b) == Rat(a.num * b.den - b.num * a.den, a.den * b.den)

T_mul(a, b) == Rat(a.num * b.num, a.den * b.den)

\* The quotient of two integers, rounded toward zero.
TruncDiv(a, b) ==
    LET q == Abs(a) \div Abs(b)
    IN  IF (a < 0) = (b < 0) THEN q ELSE -q

\* a / b: a value, or what a division by zero gives in T.
T_div(T, a, b) ==
    IF b.num = 0
    THEN IF T = "int" THEN [tag |-> "panic"]
         ELSE IF a.num = 0 THEN [tag |-> "nan"] ELSE [tag |-> "inf"]
    ELSE IF T = "int"
         THEN [tag |-> "val", v |-> Rat(TruncDiv(a.num, b.num), 1)]
         ELSE [tag |-> "val", v |-> Rat(a.num * b.den, a.den * b.num)]

\* Lerp::new_usize and its like: x0 and x1 are converted to T.
Lerp_new_usize(T, x0, x1, y0, y1) ==
    [T |-> T, x0 |-> T_from(x0), x1 |-> T_from(x1), y0 |-> y0, y1 |-> y1]

\* Mutant of Lerp_lerp: the two weights are exchanged.
Lerp_lerp_WeightsSwapped(self, x) ==
    T_div(self.T,
          T_add(T_mul(self.y0, T_sub(x, self.x0)), T_mul(self.y1, T_sub(self.x1, x))),
          T_sub(self.x1, self.x0))

\* Lerp::lerp
Lerp_lerp(self, x) ==
    T_div(self.T,
          T_add(T_mul(self.y0, T_sub(self.x1, x)), T_mul(self.y1, T_sub(x, self.x0))),
          T_sub(self.x1, self.x0))

\* Function<usize>::call for LerpPrim<T>
LerpPrim_call(self, x) == Lerp_lerp(self, T_from(x))

\* ------------------------------------------------------------------ state

VARIABLES
    build,    \* "debug" (overflow checks) or "release" (wrapping)
    args,     \* the arguments of log_space: kind, start, end, steps
    pc,       \* "ready", or "panicked" when construction panicked
    ls,       \* the LogSpace: x, steps, lerp
    fwd,      \* what next() returned so far: records [idx, val]
    bwd,      \* what next_back() returned so far: records [idx, val]
    ret,      \* what the last call returned
    last,     \* the last call: "new", "next" or "next_back"
    calls,    \* calls made so far
    ar,       \* the Arange: start, end, step_size, step
    out,      \* what Arange::next returned so far
    hint,     \* what the last size_hint() returned
    counted,  \* what count() returned
    grid,     \* the iterator arange_grid returned
    items,    \* what the grid's next() returned so far
    nested,   \* what the Product inside a 3-axis grid returned so far
    nones,    \* how many times the grid's next() returned None
    lp,       \* the Lerp: x0, x1, y0, y1, and its type parameter T
    lx        \* the input of the last call of the Lerp

vars == <<build, args, pc, ls, fwd, bwd, ret, last, calls, ar, out, hint, counted,
          grid, items, nested, nones, lp, lx>>

\* The variables of the other iterators, which an iterator leaves alone.
logOnly == <<build, ls, fwd, bwd>>
arOnly == <<ar, out, hint, counted>>
gridOnly == <<grid, items, nested, nones>>
lerpOnly == <<lp, lx>>

\* The value of a variable that the running specification does not use.
Idle == <<>>

\* The ranges of the model: start..end or start..=end with end = start * q.
LogArgs ==
    { [kind |-> k, start |-> s, end |-> s * q, steps |-> n] :
        k \in {"Range", "RangeInclusive"}, s \in 1..MaxLogStart,
        q \in 1..MaxLogRatio, n \in 0..MaxSteps }

NoLogSpace == [x |-> 0, steps |-> 0, lerp |-> [start |-> 0, step |-> Powf(1, Frac(0, 1))]]

InitLogSpace ==
    /\ build \in {"debug", "release"}
    /\ args \in LogArgs
    /\ LET made == into_log_space(args.kind, args.start, args.end, args.steps, build)
       IN  /\ pc = IF made.some THEN "ready" ELSE "panicked"
           /\ ls = IF made.some THEN made.v ELSE NoLogSpace
    /\ fwd = <<>>
    /\ bwd = <<>>
    /\ ret = None
    /\ last = "new"
    /\ calls = 0
    /\ ar = Idle /\ out = Idle /\ hint = Idle /\ counted = Idle
    /\ grid = Idle /\ items = Idle /\ nested = Idle /\ nones = Idle
    /\ lp = Idle /\ lx = Idle

LogSpace_next ==
    /\ pc = "ready"
    /\ calls < MaxLogCalls
    /\ LET r == next(ls)
       IN  /\ ls' = r.self
           /\ ret' = r.ret
           /\ fwd' = IF r.ret.some THEN Append(fwd, [idx |-> r.idx.v, val |-> r.ret.v]) ELSE fwd
    /\ last' = "next"
    /\ calls' = calls + 1
    /\ UNCHANGED <<build, args, pc, bwd>>
    /\ UNCHANGED arOnly
    /\ UNCHANGED gridOnly
    /\ UNCHANGED lerpOnly

LogSpace_next_back ==
    /\ pc = "ready"
    /\ calls < MaxLogCalls
    /\ LET r == next_back(ls)
       IN  /\ ls' = r.self
           /\ ret' = r.ret
           /\ bwd' = IF r.ret.some THEN Append(bwd, [idx |-> r.idx.v, val |-> r.ret.v]) ELSE bwd
    /\ last' = "next_back"
    /\ calls' = calls + 1
    /\ UNCHANGED <<build, args, pc, fwd>>
    /\ UNCHANGED arOnly
    /\ UNCHANGED gridOnly
    /\ UNCHANGED lerpOnly

NextLogSpace == LogSpace_next \/ LogSpace_next_back

SpecLogSpace == InitLogSpace /\ [][NextLogSpace]_vars

\* ----------------------------------------------------------- Arange: spec

ArangeArgs ==
    { [start |-> s, end |-> e, step |-> d] :
        s \in 0..MaxArStart, e \in 0..MaxArEnd, d \in (-1)..MaxArStep }

InitArange ==
    /\ args \in ArangeArgs
    /\ ar = Arange_new(args.start, args.end, args.step)
    /\ pc = "ready"
    /\ out = <<>>
    /\ ret = None
    /\ hint = <<0, None>>
    /\ counted = None
    /\ last = "new"
    /\ calls = 0
    /\ build = Idle /\ ls = Idle /\ fwd = Idle /\ bwd = Idle
    /\ grid = Idle /\ items = Idle /\ nested = Idle /\ nones = Idle
    /\ lp = Idle /\ lx = Idle

Arange_next_call ==
    /\ pc = "ready"
    /\ calls < MaxArCalls
    /\ LET r == Arange_next(ar)
       IN  /\ ar' = r.self
           /\ ret' = r.ret
           /\ out' = IF r.ret.some THEN Append(out, r.ret.v) ELSE out
    /\ last' = "next"
    /\ calls' = calls + 1
    /\ UNCHANGED <<args, pc, hint, counted>>
    /\ UNCHANGED logOnly
    /\ UNCHANGED gridOnly
    /\ UNCHANGED lerpOnly

Arange_size_hint_call ==
    /\ pc = "ready"
    /\ last # "size_hint"
    /\ hint' = Arange_size_hint(ar)
    /\ last' = "size_hint"
    /\ UNCHANGED <<args, pc, ar, out, ret, counted, calls>>
    /\ UNCHANGED logOnly
    /\ UNCHANGED gridOnly
    /\ UNCHANGED lerpOnly

\* count() takes the iterator: nothing can be called on it afterwards.
Arange_count_call ==
    /\ pc = "ready"
    /\ LET c == Arange_count(ar)
       IN  /\ counted' = c
           /\ pc' = IF c.some THEN "counted" ELSE "panicked"
    /\ last' = "count"
    /\ UNCHANGED <<args, ar, out, ret, hint, calls>>
    /\ UNCHANGED logOnly
    /\ UNCHANGED gridOnly
    /\ UNCHANGED lerpOnly

NextArange == Arange_next_call \/ Arange_size_hint_call \/ Arange_count_call

SpecArange == InitArange /\ [][NextArange]_vars

\* ------------------------------------------------------ arange_grid: spec

\* The tuples of length n over S.
Tuples(S, n) == IF n = 2 THEN S \X S ELSE S \X S \X S

\* Grids of two and three axes; every axis has a step of 1 or more, so that
\* every axis is finite.
GridArgs ==
    UNION { { [start |-> s, end |-> e, size |-> z] :
                s \in Tuples({0, 1}, n), e \in Tuples(0..MaxGridEnd, n),
                z \in ({<<"each", d>> : d \in 1..MaxGridStep}
                         \cup {<<"per_axis", t>> : t \in Tuples(1..MaxGridStep, n)}) } :
            n \in {2, 3} }

InitGrid ==
    /\ args \in GridArgs
    /\ grid = arange_grid(args.start, args.end, args.size)
    /\ items = <<>>
    /\ nested = <<>>
    /\ nones = 0
    /\ ret = None
    /\ last = "new"
    /\ calls = 0
    /\ pc = "ready"
    /\ build = Idle /\ ls = Idle /\ fwd = Idle /\ bwd = Idle
    /\ ar = Idle /\ out = Idle /\ hint = Idle /\ counted = Idle
    /\ lp = Idle /\ lx = Idle

Grid2_next_call ==
    /\ Len(args.start) = 2
    /\ nones < MaxGridNones
    /\ LET r == Grid2_next(grid)
       IN  /\ grid' = r.self
           /\ ret' = r.ret
           /\ items' = IF r.ret.some THEN Append(items, r.ret.v) ELSE items
           /\ nones' = IF r.ret.some THEN nones ELSE nones + 1
    /\ last' = "next"
    /\ calls' = calls + 1
    /\ UNCHANGED <<args, pc, nested>>
    /\ UNCHANGED logOnly
    /\ UNCHANGED arOnly
    /\ UNCHANGED lerpOnly

Grid3_next_call ==
    /\ Len(args.start) = 3
    /\ nones < MaxGridNones
    /\ LET r == Grid3_next(grid)
           i == Grid3_inner_next(grid)
       IN  /\ grid' = r.self
           /\ ret' = r.ret
           /\ items' = IF r.ret.some THEN Append(items, r.ret.v) ELSE items
           /\ nested' = IF i.ret.some THEN Append(nested, i.ret.v) ELSE nested
           /\ nones' = IF r.ret.some THEN nones ELSE nones + 1
    /\ last' = "next"
    /\ calls' = calls + 1
    /\ UNCHANGED <<args, pc>>
    /\ UNCHANGED logOnly
    /\ UNCHANGED arOnly
    /\ UNCHANGED lerpOnly

NextGrid == Grid2_next_call \/ Grid3_next_call

SpecGrid == InitGrid /\ [][NextGrid]_vars

\* ------------------------------------------- LogSpace: every step count
\* log_space with any step count that usize holds; the calls are those of
\* SpecLogSpace.

LogArgsWide ==
    { [kind |-> k, start |-> s, end |-> s * q, steps |-> n] :
        k \in {"Range", "RangeInclusive"}, s \in 1..MaxLogStart,
        q \in 1..MaxLogRatio, n \in 0..USIZE_MAX }

InitLogWide ==
    /\ build \in {"debug", "release"}
    /\ args \in LogArgsWide
    /\ LET made == into_log_space(args.kind, args.start, args.end, args.steps, build)
       IN  /\ pc = IF made.some THEN "ready" ELSE "panicked"
           /\ ls = IF made.some THEN made.v ELSE NoLogSpace
    /\ fwd = <<>>
    /\ bwd = <<>>
    /\ ret = None
    /\ last = "new"
    /\ calls = 0
    /\ ar = Idle /\ out = Idle /\ hint = Idle /\ counted = Idle
    /\ grid = Idle /\ items = Idle /\ nested = Idle /\ nones = Idle
    /\ lp = Idle /\ lx = Idle

SpecLogWide == InitLogWide /\ [][NextLogSpace]_vars

\* ------------------------------------------- LogSpace and Arange together
\* A run is the run of one LogSpace or of one Arange.

IsLogSpace == "x" \in DOMAIN ls

IsArange == "step_size" \in DOMAIN ar

InitIterators == InitLogSpace \/ InitArange

NextIterators ==
    \/ IsLogSpace /\ NextLogSpace
    \/ IsArange /\ NextArange

SpecIterators == InitIterators /\ [][NextIterators]_vars

\* ------------------------------------------------------------- Lerp: spec

LerpArgs ==
    { [T |-> t, x0 |-> a, x1 |-> b, y0 |-> c, y1 |-> d] :
        t \in {"float", "int"}, a \in 0..MaxLerpX, b \in 0..MaxLerpX,
        c \in (-1)..MaxLerpY, d \in (-1)..MaxLerpY }

InitLerp ==
    /\ args \in LerpArgs
    /\ lp = Lerp_new_usize(args.T, args.x0, args.x1, Rat(args.y0, 1), Rat(args.y1, 1))
    /\ lx = 0
    /\ ret = None
    /\ last = "new"
    /\ pc = "ready"
    /\ calls = 0
    /\ build = Idle /\ ls = Idle /\ fwd = Idle /\ bwd = Idle
    /\ ar = Idle /\ out = Idle /\ hint = Idle /\ counted = Idle
    /\ grid = Idle /\ items = Idle /\ nested = Idle /\ nones = Idle

\* call(x): a panic ends the run.
LerpPrim_call_x ==
    /\ pc = "ready"
    /\ \E x \in 0..MaxLerpX :
          LET r == LerpPrim_call(lp, x)
          IN  /\ lx' = x
              /\ ret' = r
              /\ pc' = IF r.tag = "panic" THEN "panicked" ELSE "ready"
    /\ last' = "call"
    /\ UNCHANGED <<args, lp, calls>>
    /\ UNCHANGED logOnly
    /\ UNCHANGED arOnly
    /\ UNCHANGED gridOnly

NextLerp == LerpPrim_call_x

SpecLerp == InitLerp /\ [][NextLerp]_vars

\* ------------------------------------------------------- LogSpace: claims

\* More calls than any LogSpace of the model can answer with a value.
DrainFuel == MaxSteps + 2

Reverse(s) == [i \in 1..Len(s) |-> s[Len(s) + 1 - i]]

Vals(s) == [i \in 1..Len(s) |-> s[i].val]

\* The numbers of values that the sequences of next() and next_back() calls
\* obtain from self before both return None, over every order of the calls
\* (-1 when the calls given by fuel do not exhaust it).
RECURSIVE Obtainable(_, _)
Obtainable(self, fuel) ==
    LET f == next(self)
        b == next_back(self)
    IN  IF ~f.ret.some /\ ~b.ret.some THEN {0}
        ELSE IF fuel = 0 THEN {-1}
        ELSE (IF f.ret.some
              THEN {IF c < 0 THEN c ELSE c + 1 : c \in Obtainable(f.self, fuel - 1)}
              ELSE {-1})
             \cup
             (IF b.ret.some
              THEN {IF c < 0 THEN c ELSE c + 1 : c \in Obtainable(b.self, fuel - 1)}
              ELSE {-1})

\* The values of next() calls until the first None.
RECURSIVE DrainFwd(_, _)
DrainFwd(self, fuel) ==
    LET r == next(self)
    IN  IF fuel = 0 \/ ~r.ret.some THEN <<>>
        ELSE <<r.ret.v>> \o DrainFwd(r.self, fuel - 1)

\* The values of next_back() calls until the first None.
RECURSIVE DrainBack(_, _)
DrainBack(self, fuel) ==
    LET r == next_back(self)
    IN  IF fuel = 0 \/ ~r.ret.some THEN <<>>
        ELSE <<r.ret.v>> \o DrainBack(r.self, fuel - 1)

\* The LogSpace as constructed.
Fresh == into_log_space(args.kind, args.start, args.end, args.steps, build).v

Exhausted == ls.x = ls.steps

\* C1: after any sequence of next() and next_back() calls, len() is exactly
\* the number of further calls, in any order, that still return a value, it
\* is the step count less the values returned so far, and size_hint() is
\* (len, Some(len)).
C1_LenIsExact ==
    pc = "ready" =>
        /\ Obtainable(ls, DrainFuel) = {len(ls)}
        /\ len(ls) = args.steps - Len(fwd) - Len(bwd)
        /\ size_hint(ls)[2] = Some(size_hint(ls)[1])
        /\ Obtainable(ls, DrainFuel) = {size_hint(ls)[1]}

C1_Witness ==
    /\ pc = "ready"
    /\ Len(fwd) >= 1 /\ Len(bwd) >= 1 /\ last = "next"
    /\ len(ls) >= 1

\* C2: next() returns the indices 0, 1, 2, ... ascending, next_back() the
\* indices n-1, n-2, ... descending, the two never overlap, and at
\* exhaustion every index of 0..n-1 was evaluated exactly once.
C2_EachIndexOnce ==
    pc = "ready" =>
        /\ \A k \in 1..Len(fwd) : fwd[k].idx = k - 1
        /\ \A k \in 1..Len(bwd) : bwd[k].idx = args.steps - k
        /\ \A k \in 1..Len(fwd) : fwd[k].val = lerp(Fresh.lerp, fwd[k].idx)
        /\ \A k \in 1..Len(bwd) : bwd[k].val = lerp(Fresh.lerp, bwd[k].idx)
        /\ {fwd[k].idx : k \in 1..Len(fwd)} \cap {bwd[k].idx : k \in 1..Len(bwd)} = {}
        /\ Exhausted =>
             /\ Len(fwd) + Len(bwd) = args.steps
             /\ {fwd[k].idx : k \in 1..Len(fwd)} \cup {bwd[k].idx : k \in 1..Len(bwd)}
                  = 0..(args.steps - 1)

C2_Witness ==
    /\ pc = "ready" /\ Exhausted
    /\ Len(fwd) >= 2 /\ Len(bwd) >= 2
    /\ ret = None

\* C3: the values of next_back() alone, until exhaustion, are the reverse of
\* the values of next() alone on an identical iterator, and both are n long.
C3_BackIsReverse ==
    pc = "ready" =>
        /\ DrainBack(ls, DrainFuel) = Reverse(DrainFwd(ls, DrainFuel))
        /\ Len(DrainFwd(ls, DrainFuel)) = len(ls)
        /\ (Exhausted /\ fwd = <<>>) =>
              /\ Len(bwd) = args.steps
              /\ Vals(bwd) = Reverse(DrainFwd(Fresh, DrainFuel))
        /\ (Exhausted /\ bwd = <<>>) =>
              /\ Len(fwd) = args.steps
              /\ Vals(fwd) = DrainFwd(Fresh, DrainFuel)

C3_Witness ==
    /\ pc = "ready" /\ Exhausted
    /\ fwd = <<>> /\ Len(bwd) >= 3
    /\ bwd[1].val # bwd[2].val

\* C9: a closed range with n > 1 steps yields the n values start * r^i,
\* i = 0..n-1, with r^(n-1) = end/start, the first start and the last end; a
\* half-open range with n > 0 steps yields n values start * r^i with
\* r^n = end/start, the first start and end the value at index n.
C9_LogValues ==
    LET n == args.steps
        r == ls.lerp.step
        k == IF args.kind = "RangeInclusive" THEN n - 1 ELSE n
    IN  (pc = "ready" /\ n > (IF args.kind = "RangeInclusive" THEN 1 ELSE 0)) =>
            /\ Mul(1, Powi(r, k)) = Whole(Div(args.end, args.start))
            /\ \A i \in 1..Len(fwd) : fwd[i].val = Mul(args.start, Powi(r, i - 1))
            /\ \A i \in 1..Len(bwd) : bwd[i].val = Mul(args.start, Powi(r, n - i))
            /\ Len(fwd) >= 1 => fwd[1].val = Whole(args.start)
            /\ (Exhausted /\ bwd = <<>>) =>
                  /\ Len(fwd) = n
                  /\ args.kind = "RangeInclusive" => fwd[n].val = Whole(args.end)
                  /\ args.kind = "Range" =>
                        /\ lerp(ls.lerp, n) = Whole(args.end)
                        /\ \A i \in 1..n : fwd[i].val # Whole(args.end) \/ args.end = args.start
            /\ (args.kind = "RangeInclusive" /\ Len(bwd) >= 1) => bwd[1].val = Whole(args.end)

C9_Witness ==
    /\ pc = "ready" /\ Exhausted /\ bwd = <<>>
    /\ args.kind = "RangeInclusive" /\ args.steps = 3
    /\ args.start = 2 /\ args.end = 6
    /\ fwd[1].val = Whole(2) /\ fwd[3].val = Whole(6)

\* C10: once x = steps, every next() and next_back() returns None and
\* leaves the iterator as it is; no value is produced again.
C10_Fused ==
    [][(pc = "ready" /\ Exhausted) =>
          /\ ret' = None
          /\ ls' = ls
          /\ fwd' = fwd /\ bwd' = bwd]_vars

C10_Witness ==
    /\ pc = "ready" /\ Exhausted
    /\ args.steps >= 2
    /\ calls >= args.steps + 2
    /\ ret = None /\ last = "next_back"
    /\ Len(fwd) >= 1

\* --------------------------------------------------------- Arange: claims

\* More next() calls than any finite Arange of the model answers with a value.
ArFuel == MaxArEnd + 2

\* The number of values that next() still yields before its first None
\* (-1 when the calls given by fuel do not reach a None).
RECURSIVE ArLeft(_, _)
ArLeft(self, fuel) ==
    LET r == Arange_next(self)
    IN  IF ~r.ret.some THEN 0
        ELSE IF fuel = 0 THEN -1
        ELSE LET c == ArLeft(r.self, fuel - 1) IN IF c < 0 THEN c ELSE c + 1

\* C4: next() yields start + k * step_size for k = 0, 1, 2, ... in that
\* order, each strictly below end, and returns None the first time the
\* candidate is not strictly below end; with start >= end nothing is yielded.
C4_ArangeValues ==
    LET cand == args.start + Len(out) * args.step
    IN  /\ \A k \in 1..Len(out) :
              out[k] = args.start + (k - 1) * args.step /\ out[k] < args.end
        /\ (last = "next" /\ ~ret.some) => ~(cand < args.end)
        /\ ret.some => ret.v = out[Len(out)] /\ Len(out) = calls
        /\ ~Arange_next(ar).ret.some <=> ~(cand < args.end)
        /\ args.start >= args.end => out = <<>>

C4_Witness ==
    /\ args.start = 0 /\ args.end = 4 /\ args.step = 2
    /\ out = <<0, 2>>
    /\ last = "next" /\ ret = None

\* C5: with start < end and a step_size > 0 that divides end - start, at
\* construction and after any number of next() calls size_hint() is
\* (n, Some(n)) and count() is n, n the number of values next() still yields.
C5_ExactHint ==
    (args.start < args.end /\ args.step > 0
        /\ (args.end - args.start) % args.step = 0) =>
        LET n == ArLeft(ar, ArFuel)
        IN  /\ n = (args.end - args.start) \div args.step - Len(out)
            /\ Arange_size_hint(ar) = <<n, Some(n)>>
            /\ Arange_count(ar) = Some(n)
            /\ last = "size_hint" => hint = <<n, Some(n)>>
            /\ last = "count" => pc = "counted" /\ counted = Some(n)

C5_Witness ==
    /\ args.start = 0 /\ args.end = 4 /\ args.step = 2
    /\ out = <<0>>
    /\ hint = <<1, Some(1)>>
    /\ last = "count" /\ counted = Some(1)

\* C6, as stated: with step_size = 0, whatever start and end are, next()
\* never returns None, size_hint() is (usize::MAX, None) and count() panics.
C6_ZeroStepAnyRange ==
    args.step = 0 =>
        /\ Arange_next(ar).ret.some
        /\ Arange_size_hint(ar) = <<USIZE_MAX, None>>
        /\ Arange_count(ar) = None

\* C6, amended: with step_size = 0 and start < end the iterator is infinite:
\* next() never returns None and yields start each time, size_hint() is
\* (usize::MAX, None) and count() panics.
C6_ZeroStep ==
    (args.step = 0 /\ args.start < args.end) =>
        /\ Arange_size_hint(ar) = <<USIZE_MAX, None>>
        /\ Arange_count(ar) = None
        /\ last = "size_hint" => hint = <<USIZE_MAX, None>>
        /\ last = "count" => pc = "panicked" /\ counted = None
        /\ Arange_next(ar).ret = Some(args.start)
        /\ ArLeft(ar, ArFuel) = -1
        /\ Len(out) = calls
        /\ \A k \in 1..Len(out) : out[k] = args.start

C6_Witness ==
    /\ args.step = 0 /\ args.start < args.end
    /\ calls = MaxArCalls /\ Len(out) = MaxArCalls
    /\ hint = <<USIZE_MAX, None>>
    /\ last = "count" /\ pc = "panicked"

\* ---------------------------------------------------- arange_grid: claims

\* The step of an axis, the number of values of the axis, and its k-th
\* value (k = 0, 1, ...).
StepOf(axis) ==
    IF args.size[1] = "each" THEN args.size[2] ELSE args.size[2][axis]

AxisLen(axis) ==
    IF args.start[axis] < args.end[axis]
    THEN CeilDiv(args.end[axis] - args.start[axis], StepOf(axis))
    ELSE 0

AxisVal(axis, k) == args.start[axis] + k * StepOf(axis)

NoDuplicates(seq) ==
    \A j, k \in 1..Len(seq) : j # k => seq[j] # seq[k]

\* C7: a 2-axis grid yields every pair of per-axis values exactly once,
\* L1 * L2 items, in row-major order: the second axis varies fastest and
\* restarts from its first value when the first axis advances, and the first
\* axis never goes backward.
C7_Grid2RowMajor ==
    Len(args.start) = 2 =>
        LET L1 == AxisLen(1)
            L2 == AxisLen(2)
        IN  /\ Len(items) <= L1 * L2
            /\ \A k \in 1..Len(items) :
                  items[k] = <<AxisVal(1, (k - 1) \div L2), AxisVal(2, (k - 1) % L2)>>
            /\ NoDuplicates(items)
            /\ \A k \in 1..(Len(items) - 1) :
                  /\ items[k + 1][1] >= items[k][1]
                  /\ items[k + 1][1] # items[k][1] => items[k + 1][2] = args.start[2]
            /\ ret.some => ret.v = items[Len(items)]
            /\ nones >= 1 =>
                  /\ Len(items) = L1 * L2
                  /\ {items[k] : k \in 1..Len(items)}
                       = {<<AxisVal(1, i), AxisVal(2, j)>> : i \in 0..(L1 - 1), j \in 0..(L2 - 1)}

C7_Witness ==
    /\ args.start = <<0, 0>> /\ args.end = <<2, 2>>
    /\ args.size = <<"per_axis", <<2, 1>>>>
    /\ nones = 1
    /\ items = <<<<0, 0>>, <<0, 1>>>>
    /\ ret = None

\* C8: a 3-axis grid, the product of the 2-axis grid and the third axis,
\* yields the flat triples of the nested pairs ((v1, v2), v3) in the same
\* order and number: L1 * L2 * L3 items, every combination once, in
\* lexicographic order with the third axis fastest and the first slowest.
C8_Grid3Flat ==
    Len(args.start) = 3 =>
        LET L1 == AxisLen(1)
            L2 == AxisLen(2)
            L3 == AxisLen(3)
        IN  /\ Len(items) = Len(nested)
            /\ \A k \in 1..Len(items) :
                  /\ items[k] = <<nested[k][1][1], nested[k][1][2], nested[k][2]>>
                  /\ Len(items[k]) = 3 /\ Len(nested[k]) = 2
                  /\ items[k] = <<AxisVal(1, (k - 1) \div (L2 * L3)),
                                  AxisVal(2, ((k - 1) \div L3) % L2),
                                  AxisVal(3, (k - 1) % L3)>>
            /\ NoDuplicates(items)
            /\ Len(items) <= L1 * L2 * L3
            /\ nones >= 1 =>
                  /\ Len(items) = L1 * L2 * L3
                  /\ {items[k] : k \in 1..Len(items)}
                       = {<<AxisVal(1, i), AxisVal(2, j), AxisVal(3, l)>> :
                            i \in 0..(L1 - 1), j \in 0..(L2 - 1), l \in 0..(L3 - 1)}

C8_Witness ==
    /\ args.start = <<0, 0, 0>> /\ args.end = <<2, 2, 2>>
    /\ args.size = <<"each", 1>>
    /\ nones = 1
    /\ Len(items) = 8
    /\ items[2] = <<0, 0, 1>> /\ items[3] = <<0, 1, 0>> /\ items[5] = <<1, 0, 0>>
    /\ nested[3] = <<<<0, 1>>, 0>>

\* The items a grid yields before its first None.
GridFuel == (MaxGridEnd + 1) * (MaxGridEnd + 1) * (MaxGridEnd + 1) + 1

RECURSIVE GridDrain(_, _)
GridDrain(g, fuel) ==
    LET r == IF "inner" \in DOMAIN g THEN Grid3_next(g) ELSE Grid2_next(g)
    IN  IF fuel = 0 \/ ~r.ret.some THEN <<>>
        ELSE <<r.ret.v>> \o GridDrain(r.self, fuel - 1)

\* The values an Arange yields before its first None.
RECURSIVE ArDrain(_, _)
ArDrain(self, fuel) ==
    LET r == Arange_next(self)
    IN  IF fuel = 0 \/ ~r.ret.some THEN <<>>
        ELSE <<r.ret.v>> \o ArDrain(r.self, fuel - 1)

\* C11: arange_grid with the single step s yields the item sequence of
\* arange_grid with the per-axis steps (s, s) or (s, s, s); with per-axis
\* steps every axis is stepped by its own component only.
C11_UniformIsPerAxis ==
    LET n == Len(args.start)
        s == args.size[2]
        tuple == IF n = 2 THEN <<s, s>> ELSE <<s, s, s>>
        same == arange_grid(args.start, args.end, <<"per_axis", tuple>>)
        all == GridDrain(same, GridFuel)
    IN  /\ args.size[1] = "each" =>
              /\ Len(items) <= Len(all)
              /\ items = SubSeq(all, 1, Len(items))
              /\ nones >= 1 => items = all
              /\ GridDrain(arange_grid(args.start, args.end, args.size), GridFuel) = all
        /\ args.size[1] = "per_axis" =>
              \A axis \in 1..n :
                 LET own == ArDrain(Arange_new(args.start[axis], args.end[axis],
                                               s[axis]), GridFuel)
                 IN  /\ \A k \in 1..Len(items) :
                           \E j \in 1..Len(own) : items[k][axis] = own[j]
                     /\ (nones >= 1 /\ items # <<>>) =>
                           {items[k][axis] : k \in 1..Len(items)}
                             = {own[j] : j \in 1..Len(own)}

C11_Witness ==
    /\ args.start = <<0, 0, 0>> /\ args.end = <<2, 2, 2>>
    /\ args.size = <<"each", 2>>
    /\ nones = 1
    /\ items = <<<<0, 0, 0>>>>

\* C12: in every state of a LogSpace 0 <= x <= steps, steps never goes
\* below zero (nor wraps to the top of usize), and next() and next_back()
\* return None exactly when x = steps.
C12_CursorInRange ==
    pc = "ready" =>
        /\ 0 <= ls.x /\ ls.x <= ls.steps
        /\ 0 <= ls.steps /\ ls.steps <= args.steps
        /\ ls.x = Len(fwd) /\ ls.steps = args.steps - Len(bwd)
        /\ ~next(ls).ret.some <=> ls.x = ls.steps
        /\ ~next_back(ls).ret.some <=> ls.x = ls.steps
        /\ (last # "new" /\ ~ret.some) => ls.x = ls.steps

C12_Witness ==
    /\ pc = "ready"
    /\ args.steps = 4 /\ ls.x = 2 /\ ls.steps = 2
    /\ Len(bwd) = 2
    /\ last = "next" /\ ret = None

\* C13: only the cursor changes.  A next() of a LogSpace that returns a
\* value adds one to x, a next_back() that returns a value takes one from
\* steps, and nothing else of the LogSpace changes (start and step ratio
\* never do); a next() of an Arange that returns a value adds one to the
\* step counter and leaves start, end and step_size alone, and a next()
\* that returns None changes nothing.
C13_OnlyCursorMoves ==
    [][/\ IsLogSpace =>
            /\ ls'.lerp = ls.lerp
            /\ (last' = "next" /\ ret'.some) => ls' = [ls EXCEPT !.x = ls.x + 1]
            /\ (last' = "next_back" /\ ret'.some) =>
                  ls' = [ls EXCEPT !.steps = ls.steps - 1]
            /\ ~ret'.some => ls' = ls
       /\ IsArange =>
            /\ ar'.start = ar.start /\ ar'.end = ar.end
            /\ ar'.step_size = ar.step_size
            /\ (last' = "next" /\ ret'.some) => ar' = [ar EXCEPT !.step = ar.step + 1]
            /\ (last' = "next" /\ ~ret'.some) => ar' = ar
            /\ last' # "next" => ar' = ar]_vars

C13_Witness ==
    /\ IsArange
    /\ args.step = 2 /\ ar.step = 2 /\ out = <<0, 2>>
    /\ last = "next" /\ ret = None

\* C14: for every usize index i, lerp(i) is start * step^i: the exponent
\* given to powi is the index itself, the conversion to i32 does not change
\* it.
C14_IndexIsExponent ==
    pc = "ready" =>
        /\ \A k \in 1..Len(fwd) :
              /\ AsI32(fwd[k].idx) = fwd[k].idx
              /\ fwd[k].val = Mul(ls.lerp.start, Powi(ls.lerp.step, fwd[k].idx))
        /\ \A k \in 1..Len(bwd) :
              /\ AsI32(bwd[k].idx) = bwd[k].idx
              /\ bwd[k].val = Mul(ls.lerp.start, Powi(ls.lerp.step, bwd[k].idx))

\* ----------------------------------------------------------- Lerp: claims

\* C15: lerp has no error condition: for every Lerp, x0 = x1 included, and
\* every input, lerp(x) completes and returns a defined value; it never
\* fails on a division by zero.
C15_LerpTotal ==
    /\ pc # "panicked"
    /\ last = "call" => ret.tag = "val"

\* C16: with x0 # x1, lerp(x0) = y0 and lerp(x1) = y1, and where the
\* division is exact lerp(x0 + i) = y0 + step * i for the step
\* (y1 - y0) / (x1 - x0), i = 0, 1, ...
C16_TwoPointIsLinear ==
    lp.x0 # lp.x1 =>
        LET step == T_div(lp.T, T_sub(lp.y1, lp.y0), T_sub(lp.x1, lp.x0))
            exact == lp.T = "float"
                       \/ (lp.y1.num - lp.y0.num) % Abs(lp.x1.num - lp.x0.num) = 0
            linear(i) == [tag |-> "val", v |-> T_add(lp.y0, T_mul(step.v, T_from(i)))]
        IN  /\ pc = "ready"
            /\ Lerp_lerp(lp, lp.x0) = [tag |-> "val", v |-> lp.y0]
            /\ Lerp_lerp(lp, lp.x1) = [tag |-> "val", v |-> lp.y1]
            /\ exact =>
                  /\ \A i \in 0..(MaxLerpX - args.x0) :
                        LerpPrim_call(lp, args.x0 + i) = linear(i)
                  /\ (last = "call" /\ lx >= args.x0) => ret = linear(lx - args.x0)

C16_Witness ==
    /\ args.T = "int" /\ args.x0 = 1 /\ args.x1 = 3 /\ args.y0 = -1 /\ args.y1 = 1
    /\ last = "call" /\ lx = 2
    /\ ret = [tag |-> "val", v |-> Rat(0, 1)]

\* ------------------------------------------------- implicit safety claims

\* C17: for every Arange with step_size > 0, ranges with start >= end
\* included, size_hint() is (n, Some(n)) for the number n of values that
\* next() still yields and count() returns n without a panic; the result
\* (usize::MAX, None) and the panic "iterator is infinite" occur only when
\* next() never returns None.
C17_FiniteHintForPositiveStep ==
    LET n == ArLeft(ar, ArFuel)
    IN  /\ args.step > 0 =>
              /\ n >= 0
              /\ Arange_size_hint(ar) = <<n, Some(n)>>
              /\ Arange_count(ar) = Some(n)
              /\ last = "size_hint" => hint = <<n, Some(n)>>
              /\ last = "count" => pc = "counted" /\ counted = Some(n)
        /\ Arange_size_hint(ar) = <<USIZE_MAX, None>> => n = -1
        /\ pc = "panicked" => n = -1

\* C18: for every step count, 0 included, a closed range is made into a
\* LogSpace without the subtraction steps - 1 wrapping below zero or
\* aborting, and the new iterator has len() = steps.
C18_ClosedRangeNoUnderflow ==
    args.kind = "RangeInclusive" =>
        /\ StepsMinusOne(args.steps, build) = Some(args.steps - 1)
        /\ pc # "panicked"
        /\ last = "new" => len(ls) = args.steps

====
